---- MODULE Spec2Model ----
(***************************************************************************)
(* Model of product_reviews.py: the try_me retry/error wrapper, the        *)
(* resolver (get_reviews_iframe / get_namespace), the fetcher              *)
(* (get_review_el), the two extractors (get_num_reviews, get_avg_score)    *)
(* and the driver loop of main.                                            *)
(*                                                                         *)
(* Texts are sequences of one-character strings, so that the regular       *)
(* expressions of the program are matched character by character.          *)
(* Scores are kept in tenths (float('4.8') is 48).                         *)
(* The log is the set of distinct messages written through lg; the         *)
(* attempt number of the 'Unable to connect' message is not kept.          *)
(***************************************************************************)
EXTENDS Integers, Sequences, FiniteSets, TLC

VARIABLES asin_list, i, pc, asin_data, out, log,
          attempts, retry_connect, result, exc, sleeps,
          iframe, el, num_reviews, avg_score,
          api_sleeps, auth_failed, tried, rows_of, last_xml, exhausted

vars == <<asin_list, i, pc, asin_data, out, log,
          attempts, retry_connect, result, exc, sleeps,
          iframe, el, num_reviews, avg_score,
          api_sleeps, auth_failed, tried, rows_of, last_xml, exhausted>>

(***************************************************************************)
(* Bounds of the model.                                                    *)
(***************************************************************************)
MaxAsins == 2
MaxLinks == 2
MaxImgs == 2

(***************************************************************************)
(* Program constants.                                                      *)
(***************************************************************************)
API_DELAY == 2
REQUEST_DELAY == 5
TIMEOUT == 10
REQUEST_ATTEMPTS == 10

IFRAME_NAME == "IFrameURL"
URI_2011 == "http://webservices.amazon.com/AWSECommerceService/2011-08-01"
URI_2013 == "http://webservices.amazon.com/AWSECommerceService/2013-08-01"
DEFAULT_NAMESPACE == <<"{", URI_2011, "}">>

(***************************************************************************)
(* Python values.  None, integers, floats (in tenths), the parsed div      *)
(* element and the IFrameURL node are kept apart by a tag.                 *)
(***************************************************************************)
None == [t |-> "None"]
IntVal(n) == [t |-> "int", n |-> n]
FloatVal(tenths) == [t |-> "float", tenths |-> tenths]
ElVal(doc) == [t |-> "el", doc |-> doc]
NodeVal(url) == [t |-> "node", url |-> url]

\* a truth value that takes None for true
Truthy_of_None(v) ==
    CASE v.t = "int" -> v.n # 0
      [] v.t = "float" -> v.tenths # 0
      [] v.t = "node" -> v.url # ""
      [] OTHER -> TRUE

\* Python truth value: None, 0, 0.0 and an empty-text node are false; a
\* BeautifulSoup Tag is always true.
Truthy(v) ==
    CASE v.t = "None" -> FALSE
      [] v.t = "int" -> v.n # 0
      [] v.t = "float" -> v.tenths # 0
      [] v.t = "node" -> v.url # ""
      [] OTHER -> TRUE

\* The outcome of one call of a stage function: a returned value or a raised
\* exception class.
Returned(v) == [raised |-> "none", value |-> v]
Raised(cls) == [raised |-> cls, value |-> None]

(***************************************************************************)
(* Regular expressions.  A pattern is matched from a set P of start        *)
(* positions of the text s and yields the set of positions just after a    *)
(* match; re's backtracking finds a match exactly when that set is not     *)
(* empty.                                                                  *)
(***************************************************************************)
Digit == {"0", "1", "2", "3", "4", "5", "6", "7", "8", "9"}
Digit05 == {"0", "1", "2", "3", "4", "5"}
Space == {" ", "\t", "\n", "\r", "\f"}
NonAscii == {"U+2605"}

\* one character of the class C
Cls(s, P, C) == {p + 1 : p \in {q \in P : q <= Len(s) /\ s[q] \in C}}

\* the literal w
Lit(s, P, w) ==
    {p + Len(w) : p \in {q \in P : /\ q + Len(w) - 1 <= Len(s)
                                   /\ SubSeq(s, q, q + Len(w) - 1) = w}}

\* between 1 and n characters of the class C.  (Values that are used more
\* than once are bound by a set constructor, here and below, so that they
\* are computed once.)
RECURSIVE Rep(_, _, _, _)
Rep(s, P, C, n) ==
    IF n = 0 THEN {}
    ELSE UNION {IF Q = {} THEN {} ELSE Q \cup Rep(s, Q, C, n - 1) :
                   Q \in {Cls(s, P, C)}}

\* '$': the end of the text, or just before a final newline
AtEnd(s, P) == \E p \in P : p = Len(s) + 1 \/ (p = Len(s) /\ s[p] = "\n")

SetMax(S) == CHOOSE m \in S : \A x \in S : x <= m

L_ustomer == <<"u", "s", "t", "o", "m", "e", "r">>
L_eview == <<"e", "v", "i", "e", "w">>
L_ut == <<"u", "t">>
L_f == <<"f">>
L_tars == <<"t", "a", "r", "s">>

\* NUM = r'\d{1,7}'
NUM_DIGITS == 7
NUM(s, P) == Rep(s, P, Digit, NUM_DIGITS)

\* CUST = r'(\s[Cc]ustomer)?\s[Rr]eview(s)?'
CUST(s, P) ==
    UNION {P2 \cup Cls(s, P2, {"s"}) :
              P2 \in {Lit(s, Cls(s, Cls(s, P1, Space), {"R", "r"}), L_eview) :
                         P1 \in {P0 \cup Lit(s, Cls(s, Cls(s, P0, Space),
                                                     {"C", "c"}), L_ustomer) :
                                    P0 \in {P}}}}

\* the pattern without its final '$'
NUM_REVIEWS_RE_unanchored(s) == CUST(s, NUM(s, {1})) # {}

\* NUM_REVIEWS_RE = re.compile(r'^' + NUM + CUST + '$'), as .search(s)
NUM_REVIEWS_RE(s) == AtEnd(s, CUST(s, NUM(s, {1})))

\* NUM_RE = re.compile(r'^' + NUM), as .match(s): the position after the
\* greedy match, 0 when there is none
NUM_RE(s) ==
    CHOOSE m \in {IF P = {} THEN 0 ELSE SetMax(P) : P \in {NUM(s, {1})}} : TRUE

\* FLOAT = r'[0-5]\.[0-9]'
FLOAT(s, P) == Cls(s, Cls(s, Cls(s, P, Digit05), {"."}), Digit)

\* FLOAT_RE = re.compile(r'^' + FLOAT), as .search(s) / .match(s)
FLOAT_RE(s) == FLOAT(s, {1}) # {}

\* WORDS = r'\s[Oo]ut\s[Oo]f\s5(\s[Ss]tars)?'
WORDS(s, P) ==
    LET P1 == Lit(s, Cls(s, Cls(s, P, Space), {"O", "o"}), L_ut)
        P2 == Lit(s, Cls(s, Cls(s, P1, Space), {"O", "o"}), L_f)
    IN  UNION {P3 \cup Lit(s, Cls(s, Cls(s, P3, Space), {"S", "s"}), L_tars) :
                  P3 \in {Cls(s, Cls(s, P2, Space), {"5"})}}

\* AVG_SCORE_RE = re.compile(r'^' + FLOAT + WORDS + '$')
AVG_SCORE_RE(s) == AtEnd(s, WORDS(s, FLOAT(s, {1})))

(***************************************************************************)
(* int(), float() and str() of the texts the extractors hand them.         *)
(***************************************************************************)
DigitVal(c) ==
    CASE c = "0" -> 0 [] c = "1" -> 1 [] c = "2" -> 2 [] c = "3" -> 3
      [] c = "4" -> 4 [] c = "5" -> 5 [] c = "6" -> 6 [] c = "7" -> 7
      [] c = "8" -> 8 [] c = "9" -> 9

\* int(num_str) of a run of digits: the value of its first k digits
RECURSIVE int_digits(_, _)
int_digits(ds, k) ==
    IF k = 0 THEN 0 ELSE 10 * int_digits(ds, k - 1) + DigitVal(ds[k])

int(ds) == int_digits(ds, Len(ds))

\* float(avg_score_str) of a 'd.d' text, in tenths
float(ds) == 10 * DigitVal(ds[1]) + DigitVal(ds[3])

\* str(text) of a unicode attribute value raises on a non-ASCII character
str_raises(s) == \E k \in 1..Len(s) : s[k] \in NonAscii

(***************************************************************************)
(* The parsed div element: the texts of its links, in document order, and  *)
(* the attribute dictionaries of its images, in document order.            *)
(***************************************************************************)
Doc(links, imgs) == [links |-> links, imgs |-> imgs]

\* reviews_el.find('a', text=NUM_REVIEWS_RE): index of the first link whose
\* text matches, 0 for None
find_a(doc) ==
    CHOOSE f \in {IF M = {} THEN 0 ELSE CHOOSE k \in M : \A j \in M : k <= j :
                     M \in {{k \in 1..Len(doc.links) :
                                NUM_REVIEWS_RE(doc.links[k])}}} : TRUE

\* reviews_el.find('img', attrs={attr: FLOAT_RE}): index of the first image
\* that has the attribute with a matching value, 0 for None
find_img(doc, attr) ==
    CHOOSE f \in {IF M = {} THEN 0 ELSE CHOOSE k \in M : \A j \in M : k <= j :
                     M \in {{k \in 1..Len(doc.imgs) :
                                /\ attr \in DOMAIN doc.imgs[k]
                                /\ FLOAT_RE(doc.imgs[k][attr])}}} : TRUE

\* num_str = NUM_RE.match(text).group()
num_str(text) ==
    CHOOSE n \in {SubSeq(text, 1, e - 1) : e \in {NUM_RE(text)}} : TRUE

\* body of get_num_reviews; .find of None and .text of None raise
\* AttributeError.  (The link is bound by a set constructor, so that it is
\* looked for once.)
get_num_reviews(reviews_el) ==
    IF reviews_el.t # "el" THEN Raised("AttributeError")
    ELSE LET doc == reviews_el.doc
             outcomes ==
                 {IF reviews_link = 0 THEN Raised("AttributeError")
                  ELSE Returned(IntVal(int(num_str(doc.links[reviews_link])))) :
                     reviews_link \in {find_a(doc)}}
         IN  CHOOSE o \in outcomes : TRUE

\* one pass of the loop of get_avg_score over attr: the outcome, or
\* "continue" after the AttributeError that is caught inside the loop
score_from(reviews_el, attr) ==
    IF reviews_el.t # "el" THEN [raised |-> "continue", value |-> None]
    ELSE LET doc == reviews_el.doc
             outcomes ==
                 {IF img = 0 THEN [raised |-> "continue", value |-> None]
                  ELSE LET text == doc.imgs[img][attr]
                       IN  IF str_raises(text) THEN Raised("UnicodeEncodeError")
                           ELSE Returned(FloatVal(float(SubSeq(text, 1, 3)))) :
                     img \in {find_img(doc, attr)}}
         IN  CHOOSE o \in outcomes : TRUE

\* body of get_avg_score: alt first, then title, then None
get_avg_score(reviews_el) ==
    LET outcomes ==
            {IF a.raised # "continue" THEN a
             ELSE CHOOSE o \in {IF t.raised # "continue" THEN t
                                ELSE Returned(None) :
                                   t \in {score_from(reviews_el, "title")}} :
                     TRUE :
                a \in {score_from(reviews_el, "alt")}}
    IN  CHOOSE o \in outcomes : TRUE

\* the attributes that get_avg_score logs as not found
score_misses(reviews_el) ==
    IF score_from(reviews_el, "alt").raised # "continue" THEN {}
    ELSE IF score_from(reviews_el, "title").raised # "continue" THEN {"alt"}
    ELSE {"alt", "title"}

(***************************************************************************)
(* The log: the messages written through lg.                               *)
(***************************************************************************)
LogEntry(level, msg, func, asin, detail) ==
    [level |-> level, msg |-> msg, func |-> func, asin |-> asin,
     detail |-> detail]

\* api = BetterAPI(cfg=cfg): the credentials of the configuration, encoded
\* to byte strings (the same characters)
cfg == [access_key |-> "AKIAEXAMPLEKEYID", secret_key |-> "wJalrEXAMPLESECRET"]
BetterAPI(c) == [access_key |-> c.access_key, secret_key |-> c.secret_key]
api == BetterAPI(cfg)

(***************************************************************************)
(* try_me: the wrapper try_ around a stage function.                       *)
(***************************************************************************)
ConnectErrors == {"URLError", "RequestException"}

\* asin = kwargs.get('asin', ''), api = kwargs.get('api', None): main passes
\* asin to the four stages it calls and api to get_reviews_iframe only;
\* get_namespace is called with neither
kw_asin(func, asin) == IF func = "get_namespace" THEN "" ELSE asin
kw_api(func) == func = "get_reviews_iframe"

\* a loop that forgets its attempt budget
loop_continues_unbounded(att, rc) == rc

\* while attempts < REQUEST_ATTEMPTS and retry_connect
loop_continues(att, rc) == att < REQUEST_ATTEMPTS /\ rc

\* a test that forgets RequestException, and one that takes every
\* exception for a connection problem
is_connect_error_urllib_only(cls) == cls = "URLError"
is_connect_error_any(cls) == TRUE

\* isinstance(e, (URLError, RequestException))
is_connect_error(cls) == cls \in ConnectErrors

\* an except clause without the two credential messages
except_log_no_credential(func, asin, cls) ==
    {LogEntry("error", "Error in", func, kw_asin(func, asin), cls)}
    \cup (IF cls \in ConnectErrors
          THEN {LogEntry("info", "Unable to connect", "", "", "")}
          ELSE {})

\* the messages of the except clause for an exception of class cls
except_log(func, asin, cls) ==
    {LogEntry("error", "Error in", func, kw_asin(func, asin), cls)}
    \cup (IF is_connect_error(cls)
          THEN {LogEntry("info", "Unable to connect", "", "", "")}
          ELSE IF cls = "InvalidClientTokenId" /\ kw_api(func)
          THEN {LogEntry("info", "Bad Access Key", "", "", api.access_key)}
          ELSE IF cls = "InvalidSignature" /\ kw_api(func)
          THEN {LogEntry("info", "Bad Secret Key", "", "", api.secret_key)}
          ELSE {})

\* the message after the loop: if not result
return_log(func, asin, res) ==
    IF ~Truthy(res)
    THEN {LogEntry("error", "No result from", func, kw_asin(func, asin), "")}
    ELSE {}

\* a pass that does not count an attempt which ended in an exception
try_pass_uncounted(func, asin, st, o) ==
    IF o.raised = "none"
    THEN [st EXCEPT !.attempts = @ + 1, !.retry_connect = FALSE,
                    !.result = o.value, !.exc = "none"]
    ELSE [st EXCEPT !.retry_connect = is_connect_error(o.raised),
                    !.exc = o.raised,
                    !.sleeps = @ + (IF is_connect_error(o.raised) THEN 1 ELSE 0),
                    !.log = @ \cup except_log(func, asin, o.raised)]

\* the local state of try_ after one more pass of the loop in which the
\* function's outcome was o
try_pass(func, asin, st, o) ==
    IF o.raised = "none"
    THEN [st EXCEPT !.attempts = @ + 1, !.retry_connect = FALSE,
                    !.result = o.value, !.exc = "none"]
    ELSE [st EXCEPT !.attempts = @ + 1,
                    !.retry_connect = is_connect_error(o.raised),
                    !.exc = o.raised,
                    !.sleeps = @ + (IF is_connect_error(o.raised) THEN 1 ELSE 0),
                    !.log = @ \cup except_log(func, asin, o.raised)]

\* an entry that keeps the attempt counter of the call before
try_entry_shared(lg) ==
    [attempts |-> attempts, retry_connect |-> TRUE, result |-> None,
     exc |-> "none", sleeps |-> 0, log |-> lg]

\* the local state at the entry of try_
try_entry(lg) ==
    [attempts |-> 0, retry_connect |-> TRUE, result |-> None, exc |-> "none",
     sleeps |-> 0, log |-> lg]

\* a whole call of a wrapped function whose every attempt has the outcome o:
\* the local state when try_ returns
RECURSIVE try_loop(_, _, _, _)
try_loop(func, asin, st, o) ==
    IF loop_continues(st.attempts, st.retry_connect)
    THEN try_loop(func, asin, try_pass(func, asin, st, o), o)
    ELSE [st EXCEPT !.log = @ \cup return_log(func, asin, st.result)]

(***************************************************************************)
(* The resolver.                                                           *)
(***************************************************************************)
StrVal(s) == [t |-> "str", s |-> s]

\* '{}'.format(v) of None or of a string
format(v) == IF v.t = "None" THEN <<"None">> ELSE v.s

\* the qualified tag of the IFrameURL node in the namespace uri
IFrameTag(uri) == <<"{", uri, "}", IFRAME_NAME>>

\* the lookup responses: nsmap is the default namespace of the response
\* ("None" when it has none, "absent" when the object has no nsmap), tags are
\* the qualified tags of its nodes
Response(nsmap, tags) == [nsmap |-> nsmap, tags |-> tags]
Responses ==
    { Response(URI_2011, {IFrameTag(URI_2011)}),
      Response(URI_2013, {IFrameTag(URI_2013)}),
      Response(URI_2011, {}),
      Response("None", {IFrameTag(URI_2011)}),
      Response("absent", {IFrameTag(URI_2011)}) }

\* api.item_lookup(asin, ResponseGroup='Reviews'): a response or an error
LookupOutcomes ==
    {Returned(xml) : xml \in Responses}
    \cup {Raised("URLError"), Raised("InvalidClientTokenId"),
          Raised("InvalidSignature"), Raised("InvalidParameterValue")}

\* body of get_namespace
get_namespace(xml) ==
    IF xml.nsmap = "absent" THEN Raised("AttributeError")
    ELSE LET ns == IF xml.nsmap = "None" THEN DEFAULT_NAMESPACE
                   ELSE <<xml.nsmap>>
         IN  Returned(StrVal(<<"{">> \o ns \o <<"}">>))

\* body of get_reviews_iframe once item_lookup has answered with lk: the
\* local state of the nested try_ of get_namespace and the outcome
get_reviews_iframe(lk, lg) ==
    IF lk.raised # "none" THEN [inner |-> try_entry(lg), outcome |-> lk]
    ELSE LET xml == lk.value
             inner == try_loop("get_namespace", "", try_entry(lg),
                               get_namespace(xml))
             tag == format(inner.result) \o <<IFRAME_NAME>>
         IN  [inner |-> inner,
              outcome |-> IF tag \in xml.tags
                          THEN Returned(NodeVal("https://reviews"))
                          ELSE Returned(None)]

(***************************************************************************)
(* The fetcher.                                                            *)
(***************************************************************************)
\* requests.get(url, timeout=TIMEOUT), BeautifulSoup(response.text, 'lxml')
\* and soup.find('div', class_=REVIEWS_DIV_CLASS) over the documents docs:
\* a connection error, a parser error, no such div, or the div
get_review_el(docs) ==
    {Raised("RequestException"), Raised("FeatureNotFound"), Returned(None)}
    \cup {Returned(ElVal(d)) : d \in docs}

(***************************************************************************)
(* Texts of links and of image attributes, put together from pieces.       *)
(***************************************************************************)
D_empty == <<>>
D_0 == <<"0">>
D_1 == <<"1">>
D_223 == <<"2", "2", "3">>
D_0012 == <<"0", "0", "1", "2">>
D_9999999 == <<"9", "9", "9", "9", "9", "9", "9">>
D_12345678 == <<"1", "2", "3", "4", "5", "6", "7", "8">>
C_none == <<>>
C_customer == <<" ", "c", "u", "s", "t", "o", "m", "e", "r">>
C_Customer == <<" ", "C", "u", "s", "t", "o", "m", "e", "r">>
C_CUSTOMER == <<" ", "C", "U", "S", "T", "O", "M", "E", "R">>
R_review == <<" ", "r", "e", "v", "i", "e", "w">>
R_Review == <<" ", "R", "e", "v", "i", "e", "w">>
R_reviews == <<" ", "r", "e", "v", "i", "e", "w", "s">>
R_Reviews == <<" ", "R", "e", "v", "i", "e", "w", "s">>
R_comments == <<" ", "c", "o", "m", "m", "e", "n", "t", "s">>
E_none == <<>>
E_newline == <<"\n">>
E_bang == <<"!">>
F_48 == <<"4", ".", "8">>
F_00 == <<"0", ".", "0">>
F_59 == <<"5", ".", "9">>
F_61 == <<"6", ".", "1">>
F_nodot == <<"4", "8">>
W_none == <<>>
W_out_of_5 == <<" ", "o", "u", "t", " ", "o", "f", " ", "5">>
W_Out_Of_5 == <<" ", "O", "u", "t", " ", "O", "f", " ", "5">>
W_out_of_10 == <<" ", "o", "u", "t", " ", "o", "f", " ", "1", "0">>
S_none == <<>>
S_stars == <<" ", "s", "t", "a", "r", "s">>
S_Stars == <<" ", "S", "t", "a", "r", "s">>
S_stars_bang == <<" ", "s", "t", "a", "r", "s", "!">>
S_star_glyph == <<" ", "U+2605">>

DigitParts == {D_empty, D_0, D_1, D_223, D_0012, D_9999999, D_12345678}
CustParts == {C_none, C_customer, C_Customer, C_CUSTOMER}
RevParts == {R_review, R_Review, R_reviews, R_Reviews, R_comments}
EndParts == {E_none, E_newline, E_bang}
CountTexts ==
    {d \o c \o r \o e : d \in DigitParts, c \in CustParts, r \in RevParts,
                        e \in EndParts}

FloatParts == {F_48, F_00, F_59, F_61, F_nodot}
WordsParts == {W_none, W_out_of_5, W_Out_Of_5, W_out_of_10}
StarsParts == {S_none, S_stars, S_Stars, S_stars_bang, S_star_glyph}
ScoreTexts == {f \o w \o t : f \in FloatParts, w \in WordsParts, t \in StarsParts}

\* the texts of the assertions of the program and of its documentation
T_223_customer_reviews == D_223 \o C_customer \o R_reviews
T_0_Customer_Reviews == D_0 \o C_Customer \o R_Reviews
T_1_Review == D_1 \o R_Review
T_223_reviews == D_223 \o R_reviews
T_223_comments == D_223 \o R_comments
T_48_out_of_5_stars == F_48 \o W_out_of_5 \o S_stars
T_48_Out_Of_5_Stars == F_48 \o W_Out_Of_5 \o S_Stars
T_00_out_of_5 == F_00 \o W_out_of_5
T_59_out_of_10 == F_59 \o W_out_of_10
T_48_out_of_5_glyph == F_48 \o W_out_of_5 \o S_star_glyph

\* sequences of at most n elements of S
SeqsUpTo(S, n) == UNION {[1..k -> S] : k \in 0..n}

\* an image with the attributes alt and title, each left out when "absent"
Img(alt, title) ==
    [a \in (IF alt = <<"absent">> THEN {} ELSE {"alt"})
           \cup (IF title = <<"absent">> THEN {} ELSE {"title"})
       |-> IF a = "alt" THEN alt ELSE title]

\* the documents of the driver's runs
DriverDocs ==
    { Doc(<<T_223_customer_reviews>>, <<Img(T_48_out_of_5_stars, <<"absent">>)>>),
      Doc(<<T_0_Customer_Reviews>>, <<Img(<<"absent">>, T_00_out_of_5)>>),
      Doc(<<T_1_Review>>, <<Img(T_59_out_of_10, <<"absent">>)>>),
      Doc(<<T_223_reviews>>, <<>>),
      Doc(<<>>, <<>>) }

Asins == {"B00W0I6TIM", "INVALIDASIN1"}

(***************************************************************************)
(* main: the driver loop.  pc is the statement main is at; attempts,       *)
(* retry_connect, result are the locals of the try_ call in progress, exc  *)
(* the exception of its last pass, sleeps its REQUEST_DELAY sleeps.        *)
(* Every pass of try_ around get_reviews_iframe makes one item_lookup call *)
(* and every pass around get_review_el one requests.get call.  api_sleeps  *)
(* counts the API_DELAY sleeps, auth_failed holds the positions whose      *)
(* lookup raised an authentication error, tried the positions for which    *)
(* item_lookup has been called, and rows_of[k] the position of asin_list    *)
(* that the k-th row of asin_data was made for.  last_xml is the local xml *)
(* of get_reviews_iframe: the response of the last item_lookup call.       *)
(* exhausted holds the positions one of whose calls used up its attempts   *)
(* on connection errors.                                                   *)
(***************************************************************************)
wrapper == <<attempts, retry_connect, result, exc, sleeps>>
history == <<tried, rows_of, exhausted>>
locals == <<iframe, el, num_reviews, avg_score, last_xml>>

\* the local state of the try_ call in progress
try_state ==
    [attempts |-> attempts, retry_connect |-> retry_connect,
     result |-> result, exc |-> exc, sleeps |-> sleeps, log |-> log]

SetTry(st) ==
    /\ attempts' = st.attempts
    /\ retry_connect' = st.retry_connect
    /\ result' = st.result
    /\ exc' = st.exc
    /\ sleeps' = st.sleeps
    /\ log' = st.log

\* try_ returns: the message for an empty result, and the locals of the
\* next call of try_
ReturnTry(func) ==
    \E st \in {try_entry(log \cup return_log(func, asin_list[i], result))} :
        SetTry(st)

\* the position of a call that returns after REQUEST_ATTEMPTS passes, the
\* last of which ended in a connection error
exhausts ==
    IF attempts = REQUEST_ATTEMPTS /\ exc \in ConnectErrors THEN {i} ELSE {}

Init ==
    /\ asin_list \in SeqsUpTo(Asins, MaxAsins)
    /\ i = 1
    /\ pc = "for"
    /\ asin_data = <<>>
    /\ out = <<>>
    /\ log = {}
    /\ attempts = 0 /\ retry_connect = TRUE /\ result = None
    /\ exc = "none" /\ sleeps = 0
    /\ iframe = None /\ el = None /\ num_reviews = None /\ avg_score = None
    /\ api_sleeps = 0
    /\ auth_failed = {} /\ tried = {}
    /\ rows_of = <<>>
    /\ last_xml = None /\ exhausted = {}

\* a loop that sleeps before its first identifier only
ApiSleep_first_only ==
    /\ pc = "for" /\ i <= Len(asin_list)
    /\ api_sleeps' = IF i = 1 THEN api_sleeps + 1 ELSE api_sleeps
    /\ pc' = "get_reviews_iframe"
    /\ UNCHANGED <<asin_list, i, asin_data, out, log, wrapper, locals,
                   auth_failed, history>>

\* for asin in asin_list: time.sleep(API_DELAY)
ApiSleep ==
    /\ pc = "for" /\ i <= Len(asin_list)
    /\ api_sleeps' = api_sleeps + 1
    /\ pc' = "get_reviews_iframe"
    /\ UNCHANGED <<asin_list, i, asin_data, out, log, wrapper, locals,
                   auth_failed, history>>

\* a loop that is left after its first pass
NextAsin_break ==
    /\ i' = Len(asin_list) + 1
    /\ pc' = "for"
    /\ iframe' = None /\ el' = None /\ num_reviews' = None /\ avg_score' = None
    /\ last_xml' = None

\* the next identifier: the locals of the iteration are dead
NextAsin ==
    /\ i' = i + 1
    /\ pc' = "for"
    /\ iframe' = None /\ el' = None /\ num_reviews' = None /\ avg_score' = None
    /\ last_xml' = None

\* one pass of try_ around get_reviews_iframe
TryIframe ==
    /\ pc = "get_reviews_iframe"
    /\ loop_continues(attempts, retry_connect)
    /\ tried' = tried \cup {i}
    /\ \E lk \in LookupOutcomes :
          /\ last_xml' = lk.value
          /\ auth_failed' =
                IF lk.raised \in {"InvalidClientTokenId", "InvalidSignature"}
                THEN auth_failed \cup {i} ELSE auth_failed
          /\ \E r \in {get_reviews_iframe(lk, log)} :
                \E st \in {try_pass("get_reviews_iframe", asin_list[i],
                                     [try_state EXCEPT !.log = r.inner.log],
                                     r.outcome)} : SetTry(st)
    /\ UNCHANGED <<asin_list, i, pc, asin_data, out, iframe, el, num_reviews,
                   avg_score, api_sleeps, rows_of, exhausted>>

\* iframe = get_reviews_iframe(...); if iframe:
ReturnIframe ==
    /\ pc = "get_reviews_iframe"
    /\ ~loop_continues(attempts, retry_connect)
    /\ ReturnTry("get_reviews_iframe")
    /\ IF Truthy(result)
       THEN /\ iframe' = result
            /\ pc' = "get_review_el"
            /\ last_xml' = None
            /\ UNCHANGED <<i, el, num_reviews, avg_score>>
       ELSE NextAsin
    /\ exhausted' = exhausted \cup exhausts
    /\ UNCHANGED <<asin_list, asin_data, out, api_sleeps,
                   auth_failed, tried, rows_of>>

\* one pass of try_ around get_review_el
TryEl ==
    /\ pc = "get_review_el"
    /\ loop_continues(attempts, retry_connect)
    /\ \E o \in get_review_el(DriverDocs) :
          \E st \in {try_pass("get_review_el", asin_list[i], try_state, o)} :
              SetTry(st)
    /\ UNCHANGED <<asin_list, i, pc, asin_data, out, locals, api_sleeps,
                   auth_failed, history>>

\* el = get_review_el(...); if el:
ReturnEl ==
    /\ pc = "get_review_el"
    /\ ~loop_continues(attempts, retry_connect)
    /\ ReturnTry("get_review_el")
    /\ IF Truthy(result)
       THEN /\ el' = result
            /\ pc' = "get_num_reviews"
            /\ UNCHANGED <<i, iframe, num_reviews, avg_score, last_xml>>
       ELSE NextAsin
    /\ exhausted' = exhausted \cup exhausts
    /\ UNCHANGED <<asin_list, asin_data, out, api_sleeps,
                   auth_failed, tried, rows_of>>

\* one pass of try_ around get_num_reviews
TryNum ==
    /\ pc = "get_num_reviews"
    /\ loop_continues(attempts, retry_connect)
    /\ \E o \in {get_num_reviews(el)} :
          \E st \in {try_pass("get_num_reviews", asin_list[i], try_state, o)} :
              SetTry(st)
    /\ UNCHANGED <<asin_list, i, pc, asin_data, out, locals, api_sleeps,
                   auth_failed, history>>

\* num_reviews = get_num_reviews(el, asin=asin)
ReturnNum ==
    /\ pc = "get_num_reviews"
    /\ ~loop_continues(attempts, retry_connect)
    /\ ReturnTry("get_num_reviews")
    /\ num_reviews' = result
    /\ pc' = "get_avg_score"
    /\ UNCHANGED <<asin_list, i, asin_data, out, iframe, el, avg_score, last_xml,
                   api_sleeps, auth_failed, history>>

\* the messages of the except AttributeError clause of get_avg_score
score_log(reviews_el) ==
    {LogEntry("error", "No image element found with", "", "", a) :
        a \in score_misses(reviews_el)}

\* one pass of try_ around get_avg_score
TryScore ==
    /\ pc = "get_avg_score"
    /\ loop_continues(attempts, retry_connect)
    /\ \E o \in {get_avg_score(el)} :
          \E st \in {try_pass("get_avg_score", asin_list[i],
                               [try_state EXCEPT !.log = @ \cup score_log(el)],
                               o)} :
              SetTry(st)
    /\ UNCHANGED <<asin_list, i, pc, asin_data, out, locals, api_sleeps,
                   auth_failed, history>>

\* avg_score = get_avg_score(el, asin=asin)
ReturnScore ==
    /\ pc = "get_avg_score"
    /\ ~loop_continues(attempts, retry_connect)
    /\ ReturnTry("get_avg_score")
    /\ avg_score' = result
    /\ pc' = "row"
    /\ UNCHANGED <<asin_list, i, asin_data, out, iframe, el, num_reviews, last_xml,
                   api_sleeps, auth_failed, history>>

\* a test for None in place of the truth value
all_row_not_none(asin, num, score) == asin # "" /\ num # None /\ score # None

\* all((asin, num_reviews, avg_score))
all_row(asin, num, score) == asin # "" /\ Truthy(num) /\ Truthy(score)

\* list.insert(0, x)
prepend(list, x) == <<x>> \o list

\* list.append
append(list, x) == Append(list, x)

Row(asin, num, score) == [ASIN |-> asin, NUM_REVIEWS |-> num.n,
                          AVG_SCORE |-> score.tenths]

\* if all((asin, num_reviews, avg_score)): asin_data.append(row)
Record ==
    /\ pc = "row"
    /\ IF all_row(asin_list[i], num_reviews, avg_score)
       THEN /\ asin_data' = append(asin_data,
                                   Row(asin_list[i], num_reviews, avg_score))
            /\ rows_of' = append(rows_of, i)
       ELSE UNCHANGED <<asin_data, rows_of>>
    /\ NextAsin
    /\ UNCHANGED <<asin_list, out, log, wrapper, api_sleeps, auth_failed,
                   tried, exhausted>>

\* output_json(asin_data, out)
Output ==
    /\ pc = "for" /\ i > Len(asin_list)
    /\ out' = Append(out, asin_data)
    /\ pc' = "done"
    /\ UNCHANGED <<asin_list, i, asin_data, log, wrapper, locals, api_sleeps,
                   auth_failed, history>>

Next ==
    \/ ApiSleep
    \/ TryIframe
    \/ ReturnIframe
    \/ TryEl
    \/ ReturnEl
    \/ TryNum
    \/ ReturnNum
    \/ TryScore
    \/ ReturnScore
    \/ Record
    \/ Output

Spec == Init /\ [][Next]_vars

\* the run goes on as long as a step is possible: the sleeps end and every
\* network call returns or times out
FairSpec == Spec /\ WF_vars(Next)

(***************************************************************************)
(* The extractors on their own: main has resolved and fetched the first    *)
(* identifier at the first attempt and holds the div element el.           *)
(***************************************************************************)
SmallCountTexts ==
    {T_223_customer_reviews, T_0_Customer_Reviews, T_223_comments, T_1_Review}
SmallScoreTexts ==
    {<<"absent">>, T_48_out_of_5_stars, T_00_out_of_5, T_59_out_of_10,
     F_nodot \o S_stars, T_48_out_of_5_glyph}
SmallImgs == {Img(a, t) : a \in SmallScoreTexts, t \in SmallScoreTexts}

ExtractDocs ==
    {Doc(<<t>>, <<>>) : t \in CountTexts}
    \cup {Doc(L, <<>>) : L \in SeqsUpTo(SmallCountTexts, MaxLinks)}
    \cup {Doc(<<>>, <<Img(t, <<"absent">>)>>) : t \in ScoreTexts}
    \cup {Doc(<<>>, <<Img(<<"absent">>, t)>>) : t \in ScoreTexts}
    \cup {Doc(<<T_223_reviews>>, I) : I \in SeqsUpTo(SmallImgs, MaxImgs)}

InitExtract ==
    /\ asin_list \in {<<a>> : a \in Asins}
    /\ i = 1
    /\ pc = "get_num_reviews"
    /\ asin_data = <<>>
    /\ out = <<>>
    /\ log = {}
    /\ attempts = 0 /\ retry_connect = TRUE /\ result = None
    /\ exc = "none" /\ sleeps = 0
    /\ iframe = NodeVal("https://reviews")
    /\ el \in {ElVal(d) : d \in ExtractDocs}
    /\ num_reviews = None /\ avg_score = None
    /\ api_sleeps = 1
    /\ auth_failed = {} /\ tried = {1}
    /\ rows_of = <<>>
    /\ last_xml = None /\ exhausted = {}

NextExtract ==
    \/ TryNum
    \/ ReturnNum
    \/ TryScore
    \/ ReturnScore
    \/ Record
    \/ Output

SpecExtract == InitExtract /\ [][NextExtract]_vars

(***************************************************************************)
(* Properties.                                                             *)
(***************************************************************************)
Stages == {"get_reviews_iframe", "get_review_el", "get_num_reviews",
           "get_avg_score"}
AuthErrors == {"InvalidClientTokenId", "InvalidSignature"}
Range(f) == {f[k] : k \in DOMAIN f}

\* the call of try_ in progress has made its last pass and returns next
Returning == ~loop_continues(attempts, retry_connect)

\* C1: in get_review_el, a pass that ends in a connection error before the
\* budget is used up has slept once and is followed by another pass, so that
\* the pass N that succeeds after N-1 such failures, for any N from 1 to
\* REQUEST_ATTEMPTS, is the last one, comes after exactly N-1 sleeps, and its
\* document is what main receives as el.
C1_RetryThenSucceed ==
    /\ [](pc = "get_review_el" =>
            /\ (exc \in ConnectErrors /\ attempts < REQUEST_ATTEMPTS
                  => ~Returning /\ sleeps = attempts)
            /\ (exc = "none" /\ attempts >= 1
                  => /\ Returning
                     /\ attempts \in 1..REQUEST_ATTEMPTS
                     /\ sleeps = attempts - 1))
    /\ [][pc = "get_review_el" /\ exc = "none" /\ result.t = "el"
            => el' = result /\ pc' = "get_num_reviews" /\ i' = i]_vars

C1_Witness ==
    /\ pc = "get_review_el"
    /\ attempts = REQUEST_ATTEMPTS /\ sleeps = REQUEST_ATTEMPTS - 1
    /\ exc = "none" /\ result.t = "el"

\* C2: when every pass of get_review_el ends in a connection error, the loop
\* makes REQUEST_ATTEMPTS passes, not fewer and not more, and then try_
\* returns None: main gets no element, adds no row and goes on to the next
\* identifier.  Every pass raises the attempt counter, which never exceeds
\* REQUEST_ATTEMPTS, so the loop ends.
C2_ExhaustedFetch ==
    /\ [](attempts <= REQUEST_ATTEMPTS)
    /\ [](pc = "get_review_el" /\ exc \in ConnectErrors =>
            IF attempts < REQUEST_ATTEMPTS THEN ~Returning
            ELSE Returning /\ result = None)
    /\ [][pc = "get_review_el" /\ pc' = pc => attempts' = attempts + 1]_vars
    /\ [][pc = "get_review_el" /\ exc \in ConnectErrors
            /\ attempts = REQUEST_ATTEMPTS
            => (/\ pc' = "for" /\ i' = i + 1
                /\ el' = None /\ asin_data' = asin_data /\ out' = out)]_vars

C2_Witness ==
    /\ pc = "get_review_el"
    /\ attempts = REQUEST_ATTEMPTS
    /\ exc \in ConnectErrors
    /\ result = None /\ Returning

CredentialLogged(cls) ==
    \E e \in log :
        /\ e.level = "info"
        /\ e.msg = (IF cls = "InvalidClientTokenId" THEN "Bad Access Key"
                    ELSE "Bad Secret Key")
        /\ e.detail \in {api.access_key, api.secret_key}

C5_SecretNeverLogged == \A e \in log : e.detail # api.secret_key

\* s is t with some elements left out
RECURSIVE IsSubseq(_, _)
IsSubseq(s, t) ==
    IF s = <<>> THEN TRUE
    ELSE IF t = <<>> THEN FALSE
    ELSE IF Head(s) = Head(t) THEN IsSubseq(Tail(s), Tail(t))
    ELSE IsSubseq(s, Tail(t))

\* C6: at every point of the run the rows of asin_data are made for
\* strictly increasing positions of asin_list, all of them among the
\* positions main has finished with, each row carrying the identifier of
\* its position: asin_data is a subsequence of the processed prefix, has at
\* most one row per position and never more rows than identifiers, and what
\* is written is asin_data.
C6_RowsFollowInput ==
    /\ i - 1 <= Len(asin_list)
    /\ Len(rows_of) = Len(asin_data)
    /\ Len(asin_data) <= i - 1
    /\ \A k \in 1..Len(asin_data) :
          /\ rows_of[k] \in 1..(i - 1)
          /\ asin_data[k].ASIN = asin_list[rows_of[k]]
    /\ \A k \in 1..(Len(asin_data) - 1) : rows_of[k] < rows_of[k + 1]
    /\ IsSubseq([k \in 1..Len(asin_data) |-> asin_data[k].ASIN],
                SubSeq(asin_list, 1, i - 1))
    /\ out # <<>> => out = <<asin_data>>

C6_Witness ==
    /\ pc = "done"
    /\ asin_list = <<"INVALIDASIN1", "B00W0I6TIM">>
    /\ Len(asin_data) = 2
    /\ asin_data[1].ASIN = "INVALIDASIN1" /\ asin_data[2].ASIN = "B00W0I6TIM"
    /\ out = <<asin_data>>

\* C7: whatever the stages of the identifiers do, the run ends; when it has
\* ended item_lookup has been called for every position of asin_list and
\* the rows have been written; they are written once, by the step that
\* follows the last identifier, also when there is no row at all.
C7_RunCompletes ==
    /\ <>(pc = "done")
    /\ [](pc = "done" =>
            /\ tried = 1..Len(asin_list)
            /\ api_sleeps = Len(asin_list)
            /\ out = <<asin_data>>)
    /\ [](out # <<>> => pc = "done")
    /\ [][out' # out => out = <<>> /\ pc = "for" /\ i = Len(asin_list) + 1]_vars

C7_Witness ==
    /\ pc = "done"
    /\ Len(asin_list) = 2
    /\ tried = {1, 2}
    /\ asin_data = <<>>
    /\ out = << <<>> >>

\* C8: main moves from statement to statement only along
\* sleep -> resolve -> fetch -> count -> score -> row: into the fetch only
\* with the node the resolve of the same identifier returned, into the
\* extractors only with the element the fetch returned, into the row only
\* after one pass of each extractor; a resolve or a fetch that returns None
\* ends the identifier.  The position moves by one, and only when the
\* identifier is finished, and rows are added only by the row statement.
C8_StageOrder ==
    /\ [](pc = "get_review_el" => iframe.t = "node")
    /\ [](pc \in {"get_num_reviews", "get_avg_score", "row"} =>
            iframe.t = "node" /\ el.t = "el")
    /\ [][pc' # pc =>
           (\/ pc = "for" /\ pc' = "get_reviews_iframe" /\ i' = i
            \/ pc = "for" /\ pc' = "done" /\ i' = i
            \/ /\ pc = "get_reviews_iframe" /\ pc' = "get_review_el"
               /\ attempts >= 1 /\ result.t = "node" /\ iframe' = result
               /\ i' = i
            \/ /\ pc = "get_review_el" /\ pc' = "get_num_reviews"
               /\ attempts >= 1 /\ result.t = "el" /\ el' = result
               /\ i' = i
            \/ /\ pc = "get_num_reviews" /\ pc' = "get_avg_score"
               /\ attempts = 1 /\ i' = i
            \/ /\ pc = "get_avg_score" /\ pc' = "row"
               /\ attempts = 1 /\ i' = i
            \/ /\ pc \in {"get_reviews_iframe", "get_review_el"}
               /\ pc' = "for"
               /\ attempts >= 1 /\ result = None
               /\ i' = i + 1
            \/ pc = "row" /\ pc' = "for" /\ i' = i + 1)]_vars
    /\ [][i' # i => pc' = "for" /\ i' = i + 1]_vars
    /\ [][asin_data' # asin_data => pc = "row"]_vars

C8_Witness ==
    /\ pc = "row"
    /\ i = 2
    /\ iframe.t = "node" /\ el.t = "el"
    /\ num_reviews.t = "int" /\ avg_score.t = "float"

\* the count pattern, read off the text: a run of one to seven digits at
\* the start, then nothing but an optional ' customer' or ' Customer' and
\* ' review' or ' Review' with an optional 's' (any white space character
\* for the blanks, and one newline allowed at the very end)
LeadDigits(t) ==
    Cardinality({k \in 1..Len(t) : \A j \in 1..k : t[j] \in Digit})
CountTails ==
    {c \o r \o p \o e :
        c \in {<<>>} \cup {<<w, x>> \o L_ustomer : w \in Space, x \in {"C", "c"}},
        r \in {<<w, x>> \o L_eview : w \in Space, x \in {"R", "r"}},
        p \in {<<>>, <<"s">>},
        e \in {<<>>, <<"\n">>}}
MatchesCount(t) ==
    LET k == LeadDigits(t)
    IN  k \in 1..7 /\ SubSeq(t, k + 1, Len(t)) \in CountTails

\* the value of the first k characters of t, read as a decimal number
RECURSIVE Pow10(_)
Pow10(n) == IF n = 0 THEN 1 ELSE 10 * Pow10(n - 1)
RECURSIVE Decimal(_, _)
Decimal(t, k) ==
    IF k = 0 THEN 0
    ELSE DigitVal(t[1]) * Pow10(k - 1) + Decimal(Tail(t), k - 1)

\* the count of a document: that of its first link with a matching text
ExpectedCount(doc) ==
    LET M == {k \in 1..Len(doc.links) : MatchesCount(doc.links[k])}
    IN  IF M = {} THEN None
        ELSE LET k == CHOOSE m \in M : \A j \in M : m <= j
             IN  IntVal(Decimal(doc.links[k], LeadDigits(doc.links[k])))

\* C9: get_num_reviews makes one pass and returns, for a document whose
\* first link with a text of the count pattern starts with the digits d,
\* the number d, and None (no exception) for a document without such a
\* link; the value depends on the document alone.  '223 customer reviews'
\* gives 223, '0 Customer Reviews' 0, '1 Review' 1, '223 reviews' 223,
\* '223 comments' and a document without links None.
C9_CountExtraction ==
    /\ pc = "get_num_reviews" /\ attempts >= 1 =>
          /\ attempts = 1 /\ Returning
          /\ result = ExpectedCount(el.doc)
    /\ pc \in {"get_avg_score", "row"} =>
          /\ num_reviews = ExpectedCount(el.doc)
          /\ el.doc.links = <<T_223_customer_reviews>>
                => num_reviews = IntVal(223)
          /\ el.doc.links = <<T_0_Customer_Reviews>> => num_reviews = IntVal(0)
          /\ el.doc.links = <<T_1_Review>> => num_reviews = IntVal(1)
          /\ el.doc.links = <<T_223_reviews>> => num_reviews = IntVal(223)
          /\ el.doc.links = <<T_223_comments>> => num_reviews = None
          /\ el.doc.links = <<>> => num_reviews = None

C9_Witness ==
    /\ pc = "get_avg_score"
    /\ el.doc.links = <<T_223_comments, T_0_Customer_Reviews>>
    /\ num_reviews = IntVal(0)

\* some image of the document has an alt or a title that matches the whole
\* score pattern
FullScoreMatch(doc) ==
    \E k \in 1..Len(doc.imgs) :
        \E a \in DOMAIN doc.imgs[k] : AVG_SCORE_RE(doc.imgs[k][a])

\* C10: get_avg_score returns None for every document in which no image
\* has an alt or a title matching the whole score pattern.
C10_ScoreOnlyOnFullMatch ==
    pc = "row" /\ ~FullScoreMatch(el.doc) => avg_score = None

\* the images of doc whose attribute attr is matched by the pattern M
Matching(M(_), doc, attr) ==
    {k \in 1..Len(doc.imgs) :
        attr \in DOMAIN doc.imgs[k] /\ M(doc.imgs[k][attr])}

\* score is parsed from the alt of an image with a matching alt when there
\* is one, and else from the title of an image with a matching title when
\* there is one
AltBeforeTitle(M(_), doc, score) ==
    LET A == Matching(M, doc, "alt")
        T == Matching(M, doc, "title")
    IN  IF A # {}
        THEN \E k \in A : score = FloatVal(float(doc.imgs[k]["alt"]))
        ELSE T # {} =>
                \E k \in T : score = FloatVal(float(doc.imgs[k]["title"]))

\* C11: get_avg_score checks alt before title: when some image has a
\* matching alt the score returned is the one parsed from that alt, whatever
\* the titles are, and when no image has a matching alt but one has a
\* matching title it is the one parsed from that title.  'Matching' is read
\* either way: by the pattern the extractor searches with (FLOAT_RE) or by
\* the whole score pattern (AVG_SCORE_RE).
C11_AltBeforeTitle ==
    pc = "row" =>
        \/ AltBeforeTitle(FLOAT_RE, el.doc, avg_score)
        \/ AltBeforeTitle(AVG_SCORE_RE, el.doc, avg_score)

\* the functions that try_me wraps
Wrapped == Stages \cup {"get_namespace"}

\* C12: an exception raised inside a wrapped function does not leave try_:
\* the call yields None, and every 'Error in' message that try_ writes names
\* the wrapped function and the identifier main is processing.
C12_ErrorsCaughtAndLogged ==
    /\ [](pc \in Stages /\ exc # "none" =>
            /\ result = None
            /\ \E e \in log :
                  /\ e.level = "error" /\ e.msg = "Error in"
                  /\ e.func = pc /\ e.asin = asin_list[i] /\ e.detail = exc)
    /\ [][\A e \in log' \ log :
            e.msg = "Error in" =>
                e.func \in Wrapped /\ e.asin = asin_list[i]]_vars

\* the largest number of NUM_DIGITS digits
MaxCount == Pow10(NUM_DIGITS) - 1

\* C13: every score get_avg_score returns, and the 'Average score' of every
\* row, lies between 0.0 and 5.0 (0..50 tenths); every count get_num_reviews
\* returns, and the 'Number of reviews' of every row, is an integer between
\* 0 and 9,999,999.
C13_FieldRanges ==
    /\ pc = "get_avg_score" /\ attempts >= 1 /\ result # None =>
          result.t = "float" /\ result.tenths \in 0..50
    /\ pc \in {"get_avg_score", "row"} /\ num_reviews # None =>
          num_reviews.t = "int" /\ num_reviews.n \in 0..MaxCount
    /\ pc = "row" /\ avg_score # None =>
          avg_score.t = "float" /\ avg_score.tenths \in 0..50
    /\ \A k \in 1..Len(asin_data) :
          /\ asin_data[k].AVG_SCORE \in 0..50
          /\ asin_data[k].NUM_REVIEWS \in 0..MaxCount

\* C14: every REQUEST_DELAY sleep of a wrapped call is followed by another
\* attempt of that call, so that a call which returns after k attempts has
\* slept k-1 times, also when all REQUEST_ATTEMPTS attempts ended in a
\* connection error.
C14_SleepsBetweenAttempts ==
    /\ [][sleeps' > sleeps => loop_continues(attempts', retry_connect')]_vars
    /\ [](pc \in Stages /\ attempts >= 1 /\ Returning =>
            sleeps = attempts - 1)

\* the stages that call the network: item_lookup in get_reviews_iframe,
\* requests.get in get_review_el; a step that stays in such a stage is one
\* pass of try_, which makes one call
NetworkStages == {"get_reviews_iframe", "get_review_el"}
NetworkCall == pc \in NetworkStages /\ pc' = pc

\* the network calls the run may still make if every call has a budget of
\* REQUEST_ATTEMPTS: two calls for each identifier to come, and what is left
\* of the budgets of the identifier in progress
CallsLeft ==
    2 * REQUEST_ATTEMPTS * (Len(asin_list) - i)
    + (CASE pc = "for" /\ i <= Len(asin_list) -> 2 * REQUEST_ATTEMPTS
         [] pc = "get_reviews_iframe" -> 2 * REQUEST_ATTEMPTS - attempts
         [] pc = "get_review_el" -> REQUEST_ATTEMPTS - attempts
         [] pc \in {"for", "done"} /\ i > Len(asin_list) ->
                2 * REQUEST_ATTEMPTS
         [] OTHER -> 0)

\* the steps an identifier may still take from statement p on, a wrapped
\* call taking at most REQUEST_ATTEMPTS passes and one return
CallSteps == REQUEST_ATTEMPTS + 1
StepsOfAsin == 1 + 4 * CallSteps + 1
StepsAfter(p) ==
    CASE p = "get_reviews_iframe" -> 3 * CallSteps + 1
      [] p = "get_review_el" -> 2 * CallSteps + 1
      [] p = "get_num_reviews" -> CallSteps + 1
      [] p = "get_avg_score" -> 1
      [] OTHER -> 0
StepsLeft ==
    CASE pc = "done" -> 0
      [] pc = "for" -> StepsOfAsin * (Len(asin_list) - i + 1) + 1
      [] pc = "row" -> StepsOfAsin * (Len(asin_list) - i) + 1 + 1
      [] OTHER -> StepsOfAsin * (Len(asin_list) - i) + 1
                  + (CallSteps - attempts) + StepsAfter(pc)

\* C15: every network call has one budget of REQUEST_ATTEMPTS attempts.
\* Every pass of the resolve or of the fetch is one network call and uses up
\* one of the 2 * REQUEST_ATTEMPTS calls of its identifier (the call of
\* get_namespace nested in the resolve adds none), no step gives a call
\* back, so the run makes at most 20 calls for each identifier; and every
\* step of the run brings its end nearer while a step is possible until the
\* rows are written, so the run ends.
C15_OneRetryBudget ==
    /\ [](attempts \in 0..REQUEST_ATTEMPTS)
    /\ [](pc = "for" /\ i = 1 =>
            CallsLeft = 2 * REQUEST_ATTEMPTS * Len(asin_list))
    /\ [](CallsLeft >= 0)
    /\ [][NetworkCall =>
            (/\ attempts' = attempts + 1
             /\ i \in tried'
             /\ CallsLeft' = CallsLeft - 1)]_vars
    /\ [][CallsLeft' <= CallsLeft]_vars
    /\ [][tried' # tried => NetworkCall]_vars
    /\ [](StepsLeft >= 0)
    /\ [][StepsLeft' < StepsLeft]_vars
    /\ [](pc # "done" => ENABLED Next)
    /\ [](\A lk \in LookupOutcomes :
            LET inner == get_reviews_iframe(lk, log).inner
            IN  inner.attempts <= 1 /\ inner.sleeps = 0)

C15_Witness ==
    /\ pc = "get_review_el" /\ i = 2
    /\ asin_list[1] # asin_list[2]
    /\ 1 \in exhausted
    /\ LogEntry("error", "Error in", "get_reviews_iframe", asin_list[2],
                "URLError") \in log
    /\ attempts = REQUEST_ATTEMPTS /\ exc = "RequestException"
    /\ CallsLeft = 0

\* C16: retry state is not shared.  Every wrapped call starts with the
\* attempt counter at 0 and no result, and a resolve or fetch that has met
\* nothing but connection errors goes on up to its REQUEST_ATTEMPTS-th
\* attempt, whatever the identifiers before it did (also after one of them
\* has exhausted a call).  The row of an identifier is made from the values
\* its own extractors returned for its own element, and asin_data only ever
\* grows by one row at its end.
C16_NoSharedRetryState ==
    /\ [][pc' # pc /\ pc' \in Stages =>
            (/\ attempts' = 0 /\ retry_connect' = TRUE
             /\ result' = None /\ exc' = "none" /\ sleeps' = 0)]_vars
    /\ [](pc \in NetworkStages /\ attempts < REQUEST_ATTEMPTS
            /\ (attempts = 0 \/ exc \in ConnectErrors) => ~Returning)
    /\ [](pc = "row" =>
            /\ num_reviews = get_num_reviews(el).value
            /\ avg_score = get_avg_score(el).value)
    /\ [][pc = "row" =>
            (Len(asin_data') = Len(asin_data) + 1
                <=> all_row(asin_list[i], num_reviews, avg_score))]_vars
    /\ [][asin_data' # asin_data =>
            (/\ Len(asin_data') = Len(asin_data) + 1
             /\ SubSeq(asin_data', 1, Len(asin_data)) = asin_data
             /\ asin_data'[Len(asin_data')].ASIN = asin_list[i])]_vars

C16_Witness ==
    /\ pc = "get_review_el" /\ i = 2
    /\ exhausted = {1}
    /\ attempts = REQUEST_ATTEMPTS /\ sleeps = REQUEST_ATTEMPTS - 1
    /\ result.t = "el"

\* C17: main sleeps API_DELAY once for every identifier, before the resolve
\* of that identifier: the sleeps done are as many as the identifiers
\* started, item_lookup is called for a position only after the sleep of
\* that position, also when the identifier before it failed, and the
\* finished run has slept once for each identifier.
C17_PacingSleep ==
    /\ [](pc = "for" => api_sleeps = i - 1)
    /\ [](pc \in Stages \cup {"row"} => api_sleeps = i)
    /\ [](pc = "done" => api_sleeps = Len(asin_list))
    /\ [](tried \subseteq 1..api_sleeps)
    /\ [][api_sleeps' # api_sleeps =>
            (/\ api_sleeps' = api_sleeps + 1
             /\ pc = "for" /\ pc' = "get_reviews_iframe"
             /\ i \notin tried /\ attempts' = 0)]_vars
    /\ [][tried' # tried => tried' = tried \cup {i} /\ api_sleeps = i]_vars

C17_Witness ==
    /\ pc = "get_reviews_iframe" /\ i = 2
    /\ 1 \in auth_failed \cup exhausted
    /\ api_sleeps = 2
    /\ tried = {1, 2}

\* C18: the resolver looks for the IFrameURL node under the namespace of
\* the response when the response carries one and under the default
\* namespace when it carries none, the URI wrapped in one pair of braces: a
\* lookup that returns a response with the IFrameURL node in that namespace
\* yields the node.
C18_NamespaceFallback ==
    pc = "get_reviews_iframe" /\ attempts >= 1
        /\ last_xml # None /\ last_xml.nsmap # "absent" =>
            LET uri == IF last_xml.nsmap = "None" THEN URI_2011
                       ELSE last_xml.nsmap
            IN  IFrameTag(uri) \in last_xml.tags => result.t = "node"

\* the two fields are a count of at least 1 and a score above 0.0
BothFieldsTruthy ==
    /\ num_reviews.t = "int" /\ num_reviews.n >= 1
    /\ avg_score.t = "float" /\ avg_score.tenths > 0

\* C19: a row is added for an identifier exactly when its resolve returned
\* a node, its fetch an element, and its extractors a count of at least 1
\* and a score above 0.0.  A resolve or fetch that returns None ends the
\* identifier without a row; after a fetch that returned an element both
\* extractors make their pass whatever the first one returned; and a count
\* of 0, a score of 0.0 or a missing field leaves asin_data as it is.
C19_RecordIffTruthy ==
    /\ [][Len(asin_data') > Len(asin_data) =>
            (/\ pc = "row"
             /\ iframe.t = "node" /\ el.t = "el"
             /\ BothFieldsTruthy
             /\ asin_data' = Append(asin_data,
                                    Row(asin_list[i], num_reviews, avg_score))
             /\ rows_of' = Append(rows_of, i))]_vars
    /\ [][pc = "row" /\ BothFieldsTruthy =>
            Len(asin_data') = Len(asin_data) + 1]_vars
    /\ [][(pc = "row" /\ (\/ num_reviews \in {None, IntVal(0)}
                          \/ avg_score \in {None, FloatVal(0)})) =>
            (asin_data' = asin_data /\ pc' = "for" /\ i' = i + 1)]_vars
    /\ [][(pc \in NetworkStages /\ pc' = "for") =>
            (result = None /\ asin_data' = asin_data)]_vars
    /\ [][pc = "get_review_el" /\ pc' # pc /\ result # None =>
            pc' = "get_num_reviews" /\ el' = result]_vars
    /\ [][pc = "get_num_reviews" /\ pc' # pc =>
            pc' = "get_avg_score" /\ attempts = 1]_vars
    /\ [][pc = "get_avg_score" /\ pc' # pc =>
            pc' = "row" /\ attempts = 1]_vars

\* the run of one identifier whose document has a link '0 Customer Reviews'
\* and an image with the title '0.0 out of 5': both fields were extracted
\* without an exception, both are reported as no result, no row was made
C19_Witness ==
    /\ pc = "done"
    /\ asin_list = <<"B00W0I6TIM">>
    /\ asin_data = <<>> /\ out = << <<>> >>
    /\ log = { LogEntry("error", "No image element found with", "", "", "alt"),
               LogEntry("error", "No result from", "get_num_reviews",
                        "B00W0I6TIM", ""),
               LogEntry("error", "No result from", "get_avg_score",
                        "B00W0I6TIM", "") }

====
